---- MODULE Spec2Model ----
(***************************************************************************)
(* Model of the NIV calculation engine (rust-engine/src/niv.rs).            *)
(*                                                                         *)
(* An f64 is modelled as a fixed-point integer: the value v is the integer *)
(* v * SCALE, every operation truncating toward zero.  Dates are first-of- *)
(* month dates, modelled as the month count year * 12 + (month - 1).       *)
(***************************************************************************)
EXTENDS Integers, Sequences, FiniteSets, TLC

VARIABLES engine, data, extended_data, raw_results, results, validation, pc,
          calls, tasks, monte_carlo

vars == <<engine, data, extended_data, raw_results, results, validation, pc,
          calls, tasks, monte_carlo>>

--------------------------------------------------------------------------
(* Fixed-point arithmetic standing for f64 arithmetic.                     *)

SCALE == 10000

Abs(x) == IF x < 0 THEN -x ELSE x

Sign(x) == IF x < 0 THEN -1 ELSE 1

Max(a, b) == IF a >= b THEN a ELSE b

Min(a, b) == IF a <= b THEN a ELSE b

(* <<q, r>> with a * b = q * c + r and 0 <= r < c, for 0 <= a < c, b >= 0; *)
(* no intermediate value exceeds 3 * c.                                    *)
RECURSIVE MulDivRem(_, _, _)
MulDivRem(a, b, c) ==
    IF b = 0 THEN <<0, 0>>
    ELSE LET h == MulDivRem(a, b \div 2, c)
             t == 2 * h[2] + (b % 2) * a
         IN  <<2 * h[1] + (t \div c), t % c>>

(* a * b / c truncated toward zero, computed without forming a * b.        *)
MulDiv(a, b, c) ==
    LET s  == Sign(a) * Sign(b) * Sign(c)
        aa == Abs(a)
        bb == Abs(b)
        cc == Abs(c)
    IN  IF aa < 40000 /\ bb < 40000
        THEN s * ((aa * bb) \div cc)
        ELSE s * ((aa \div cc) * bb + MulDivRem(aa % cc, bb, cc)[1])

FMul(a, b) == MulDiv(a, b, SCALE)

FDiv(a, b) == MulDiv(a, SCALE, b)

(* Largest r with r * r <= n, by bisection on [lo, hi].                    *)
RECURSIVE ISqrtIn(_, _, _)
ISqrtIn(n, lo, hi) ==
    IF lo >= hi THEN lo
    ELSE LET mid == (lo + hi + 1) \div 2
         IN  IF mid * mid <= n THEN ISqrtIn(n, mid, hi)
                               ELSE ISqrtIn(n, lo, mid - 1)

ISqrt(n) == ISqrtIn(n, 0, Min(n, 46340))

(* f64::sqrt of a non-negative value.                                      *)
FSqrt(x) == IF x < 200000 THEN ISqrt(x * SCALE) ELSE 100 * ISqrt(x)

(* The sum of the Taylor series of exp on [0, 1), term by term.            *)
RECURSIVE ExpSeries(_, _, _, _)
ExpSeries(r, term, k, acc) ==
    IF term = 0 THEN acc
    ELSE LET next == (term * r) \div (k * SCALE)
         IN  ExpSeries(r, next, k + 1, acc + next)

(* e^k for a natural k (e = 2.7183).                                       *)
RECURSIVE ExpInt(_)
ExpInt(k) == IF k = 0 THEN SCALE ELSE FMul(ExpInt(k - 1), 27183)

(* f64::exp.  Arguments beyond +-12 saturate: the model's integers have no *)
(* room for the value, and every use divides by 1 + exp.                   *)
FExp(x) ==
    IF x >= 12 * SCALE THEN ExpInt(12)
    ELSE IF x <= -12 * SCALE THEN 0
    ELSE LET k    == x \div SCALE
             r    == x - k * SCALE
             frac == ExpSeries(r, SCALE, 1, SCALE)
         IN  IF k >= 0 THEN FMul(ExpInt(k), frac)
                       ELSE FDiv(frac, ExpInt(-k))

(* f64::tanh, as (e^2x - 1) / (e^2x + 1); odd, and 1 beyond |x| >= 6.       *)
FTanh(x) ==
    LET a == Abs(x)
        e == FExp(2 * Min(a, 6 * SCALE))
    IN  IF a >= 6 * SCALE THEN Sign(x) * SCALE
        ELSE Sign(x) * FDiv(e - SCALE, e + SCALE)


(* Integer division truncating toward zero (a sum divided by a count).     *)
TruncDiv(a, n) == Sign(a) * (Abs(a) \div n)

RECURSIVE SumSeq(_)
SumSeq(s) == IF s = <<>> THEN 0 ELSE Head(s) + SumSeq(Tail(s))

--------------------------------------------------------------------------
(* Global parameters of niv.rs.                                            *)

ETA == 15000

EPSILON == 10

SMOOTH_WINDOW == 12

R_D_MULTIPLIER == 11500

THRUST_DG_WEIGHT == 10000

THRUST_DA_WEIGHT == 10000

THRUST_DR_WEIGHT == 7000

DRAG_SPREAD_WEIGHT == 4000

DRAG_REAL_RATE_WEIGHT == 4000

DRAG_VOLATILITY_WEIGHT == 2000

--------------------------------------------------------------------------
(* Dates: chrono::NaiveDate restricted to the first of a month.            *)

Ymd(year, month) == year * 12 + (month - 1)

Year(date) == date \div 12

Month(date) == (date % 12) + 1

--------------------------------------------------------------------------
(* AlertLevel and AlertLevel::from_probability.                            *)

AlertLevel == {"Normal", "Elevated", "Warning", "Critical"}

(* The same function of the earlier engine (src/niv.rs).                   *)
from_probability_v1(prob) ==
    IF prob < 3000 THEN "Normal"
    ELSE IF prob < 5000 THEN "Elevated"
    ELSE IF prob < 7000 THEN "Warning"
    ELSE "Critical"

from_probability_swapped(prob) ==
    IF prob < 3000 THEN "Normal"
    ELSE IF prob < 5000 THEN "Warning"
    ELSE IF prob < 7000 THEN "Elevated"
    ELSE "Critical"

from_probability_inclusive(prob) ==
    IF prob <= 3000 THEN "Normal"
    ELSE IF prob <= 5000 THEN "Elevated"
    ELSE IF prob <= 7000 THEN "Warning"
    ELSE "Critical"

from_probability(prob) ==
    IF prob < 3000 THEN "Normal"
    ELSE IF prob < 5000 THEN "Elevated"
    ELSE IF prob < 7000 THEN "Warning"
    ELSE "Critical"

--------------------------------------------------------------------------
(* NIVEngine.                                                              *)

NIVEngine_new == [eta |-> ETA, epsilon |-> EPSILON]

(* Statistics::std_dev of statrs: the sample standard deviation, the sum   *)
(* of squared deviations from the mean divided by n - 1.                   *)
std_dev_population(xs) ==
    LET n    == Len(xs)
        mean == TruncDiv(SumSeq(xs), n)
        sq   == [k \in 1..n |-> FMul(xs[k] - mean, xs[k] - mean)]
    IN  FSqrt(TruncDiv(SumSeq(sq), n))

std_dev(xs) ==
    LET n    == Len(xs)
        mean == TruncDiv(SumSeq(xs), n)
        sq   == [k \in 1..n |-> FMul(xs[k] - mean, xs[k] - mean)]
    IN  FSqrt(TruncDiv(SumSeq(sq), n - 1))

extend_record_nonzero_guard(d, i) ==
    LET current    == d[i]
        prev_month == d[i - 1]
        year_ago   == d[i - 12]
        dg == IF prev_month.investment # 0
              THEN FMul(FDiv(current.investment - prev_month.investment,
                             prev_month.investment), 100 * SCALE)
              ELSE 0
        da == IF year_ago.m2_supply > 0
              THEN FMul(FDiv(current.m2_supply - year_ago.m2_supply,
                             year_ago.m2_supply), 100 * SCALE)
              ELSE 0
        dr == current.fed_funds_rate - prev_month.fed_funds_rate
        fed_funds_window == [k \in 1..12 |-> d[i - 12 + k].fed_funds_rate]
        sigma_r == std_dev(fed_funds_window)
    IN  [base |-> current, dg |-> dg, da |-> da, dr |-> dr, sigma_r |-> sigma_r]

extend_record_da_monthly(d, i) ==
    LET current    == d[i]
        prev_month == d[i - 1]
        year_ago   == d[i - 12]
        dg == IF prev_month.investment > 0
              THEN FMul(FDiv(current.investment - prev_month.investment,
                             prev_month.investment), 100 * SCALE)
              ELSE 0
        da == IF prev_month.m2_supply > 0
              THEN FMul(FDiv(current.m2_supply - prev_month.m2_supply,
                             prev_month.m2_supply), 100 * SCALE)
              ELSE 0
        dr == current.fed_funds_rate - prev_month.fed_funds_rate
        fed_funds_window == [k \in 1..12 |-> d[i - 12 + k].fed_funds_rate]
        sigma_r == std_dev(fed_funds_window)
    IN  [base |-> current, dg |-> dg, da |-> da, dr |-> dr, sigma_r |-> sigma_r]

extend_record_by_date(d, i) ==
    LET current    == d[i]
        prev_month == d[i - 1]
        dated      == {j \in 1..Len(d) : d[j].date = d[i].date - 12}
        year_ago   == IF dated = {} THEN d[i - 12]
                      ELSE d[CHOOSE j \in dated : TRUE]
        dg == IF prev_month.investment > 0
              THEN FMul(FDiv(current.investment - prev_month.investment,
                             prev_month.investment), 100 * SCALE)
              ELSE 0
        da == IF year_ago.m2_supply > 0
              THEN FMul(FDiv(current.m2_supply - year_ago.m2_supply,
                             year_ago.m2_supply), 100 * SCALE)
              ELSE 0
        dr == current.fed_funds_rate - prev_month.fed_funds_rate
        fed_funds_window == [k \in 1..12 |-> d[i - 12 + k].fed_funds_rate]
        sigma_r == std_dev(fed_funds_window)
    IN  [base |-> current, dg |-> dg, da |-> da, dr |-> dr, sigma_r |-> sigma_r]

(* The body of the loop of compute_extended_data for the 1-based index i   *)
(* (the code's i is i - 1).                                                *)
extend_record(d, i) ==
    LET current    == d[i]
        prev_month == d[i - 1]
        year_ago   == d[i - 12]
        dg == IF prev_month.investment > 0
              THEN FMul(FDiv(current.investment - prev_month.investment,
                             prev_month.investment), 100 * SCALE)
              ELSE 0
        da == IF year_ago.m2_supply > 0
              THEN FMul(FDiv(current.m2_supply - year_ago.m2_supply,
                             year_ago.m2_supply), 100 * SCALE)
              ELSE 0
        dr == current.fed_funds_rate - prev_month.fed_funds_rate
        fed_funds_window == [k \in 1..12 |-> d[i - 12 + k].fed_funds_rate]
        sigma_r == std_dev(fed_funds_window)
    IN  [base |-> current, dg |-> dg, da |-> da, dr |-> dr, sigma_r |-> sigma_r]

compute_extended_data_from_13(d) ==
    [k \in 1..(Len(d) - 13) |-> extend_record(d, k + 13)]

compute_extended_data(d) ==
    [k \in 1..(Len(d) - 12) |-> extend_record(d, k + 12)]

compute_components_no_multiplier(x) ==
    LET thrust_input == FMul(THRUST_DG_WEIGHT, x.dg)
                        + FMul(THRUST_DA_WEIGHT, x.da)
                        - FMul(THRUST_DR_WEIGHT, x.dr)
        thrust == FTanh(FDiv(thrust_input, 10 * SCALE))
        efficiency == IF x.base.gdp > 0
                      THEN FDiv(x.base.investment, x.base.gdp)
                      ELSE 0
        efficiency_squared == FMul(efficiency, efficiency)
        slack == SCALE - FDiv(x.base.capacity_util, 100 * SCALE)
        drag_spread == IF x.base.yield_spread < 0
                       THEN FDiv(Abs(x.base.yield_spread), 100 * SCALE)
                       ELSE 0
        real_rate == x.base.fed_funds_rate - x.base.cpi_inflation
        drag_real_rate == FDiv(Max(real_rate, 0), 100 * SCALE)
        drag_volatility == FDiv(x.sigma_r, 100 * SCALE)
        drag == FMul(DRAG_SPREAD_WEIGHT, drag_spread)
                + FMul(DRAG_REAL_RATE_WEIGHT, drag_real_rate)
                + FMul(DRAG_VOLATILITY_WEIGHT, drag_volatility)
    IN  [thrust |-> thrust, efficiency |-> efficiency,
         efficiency_squared |-> efficiency_squared, slack |-> slack,
         drag |-> drag, drag_spread |-> drag_spread,
         drag_real_rate |-> drag_real_rate, drag_volatility |-> drag_volatility]

compute_components_spread_any(x) ==
    LET thrust_input == FMul(THRUST_DG_WEIGHT, x.dg)
                        + FMul(THRUST_DA_WEIGHT, x.da)
                        - FMul(THRUST_DR_WEIGHT, x.dr)
        thrust == FTanh(FDiv(thrust_input, 10 * SCALE))
        efficiency == IF x.base.gdp > 0
                      THEN FDiv(FMul(x.base.investment, R_D_MULTIPLIER), x.base.gdp)
                      ELSE 0
        efficiency_squared == FMul(efficiency, efficiency)
        slack == SCALE - FDiv(x.base.capacity_util, 100 * SCALE)
        drag_spread == IF x.base.yield_spread # 0
                       THEN FDiv(Abs(x.base.yield_spread), 100 * SCALE)
                       ELSE 0
        real_rate == x.base.fed_funds_rate - x.base.cpi_inflation
        drag_real_rate == FDiv(Max(real_rate, 0), 100 * SCALE)
        drag_volatility == FDiv(x.sigma_r, 100 * SCALE)
        drag == FMul(DRAG_SPREAD_WEIGHT, drag_spread)
                + FMul(DRAG_REAL_RATE_WEIGHT, drag_real_rate)
                + FMul(DRAG_VOLATILITY_WEIGHT, drag_volatility)
    IN  [thrust |-> thrust, efficiency |-> efficiency,
         efficiency_squared |-> efficiency_squared, slack |-> slack,
         drag |-> drag, drag_spread |-> drag_spread,
         drag_real_rate |-> drag_real_rate, drag_volatility |-> drag_volatility]

compute_components_unit_efficiency(x) ==
    LET thrust_input == FMul(THRUST_DG_WEIGHT, x.dg)
                        + FMul(THRUST_DA_WEIGHT, x.da)
                        - FMul(THRUST_DR_WEIGHT, x.dr)
        thrust == FTanh(FDiv(thrust_input, 10 * SCALE))
        efficiency == IF x.base.gdp > 0
                      THEN FDiv(FMul(x.base.investment, R_D_MULTIPLIER), x.base.gdp)
                      ELSE SCALE
        efficiency_squared == FMul(efficiency, efficiency)
        slack == SCALE - FDiv(x.base.capacity_util, 100 * SCALE)
        drag_spread == IF x.base.yield_spread < 0
                       THEN FDiv(Abs(x.base.yield_spread), 100 * SCALE)
                       ELSE 0
        real_rate == x.base.fed_funds_rate - x.base.cpi_inflation
        drag_real_rate == FDiv(Max(real_rate, 0), 100 * SCALE)
        drag_volatility == FDiv(x.sigma_r, 100 * SCALE)
        drag == FMul(DRAG_SPREAD_WEIGHT, drag_spread)
                + FMul(DRAG_REAL_RATE_WEIGHT, drag_real_rate)
                + FMul(DRAG_VOLATILITY_WEIGHT, drag_volatility)
    IN  [thrust |-> thrust, efficiency |-> efficiency,
         efficiency_squared |-> efficiency_squared, slack |-> slack,
         drag |-> drag, drag_spread |-> drag_spread,
         drag_real_rate |-> drag_real_rate, drag_volatility |-> drag_volatility]

compute_components(x) ==
    LET thrust_input == FMul(THRUST_DG_WEIGHT, x.dg)
                        + FMul(THRUST_DA_WEIGHT, x.da)
                        - FMul(THRUST_DR_WEIGHT, x.dr)
        thrust == FTanh(FDiv(thrust_input, 10 * SCALE))
        efficiency == IF x.base.gdp > 0
                      THEN FDiv(FMul(x.base.investment, R_D_MULTIPLIER), x.base.gdp)
                      ELSE 0
        efficiency_squared == FMul(efficiency, efficiency)
        slack == SCALE - FDiv(x.base.capacity_util, 100 * SCALE)
        drag_spread == IF x.base.yield_spread < 0
                       THEN FDiv(Abs(x.base.yield_spread), 100 * SCALE)
                       ELSE 0
        real_rate == x.base.fed_funds_rate - x.base.cpi_inflation
        drag_real_rate == FDiv(Max(real_rate, 0), 100 * SCALE)
        drag_volatility == FDiv(x.sigma_r, 100 * SCALE)
        drag == FMul(DRAG_SPREAD_WEIGHT, drag_spread)
                + FMul(DRAG_REAL_RATE_WEIGHT, drag_real_rate)
                + FMul(DRAG_VOLATILITY_WEIGHT, drag_volatility)
    IN  [thrust |-> thrust, efficiency |-> efficiency,
         efficiency_squared |-> efficiency_squared, slack |-> slack,
         drag |-> drag, drag_spread |-> drag_spread,
         drag_real_rate |-> drag_real_rate, drag_volatility |-> drag_volatility]

(* The denominator and the raw quotient of compute_niv are of the order of *)
(* 1e-5 at the epsilon floor: they are kept at the finer scale SCALE^2.    *)
DSCALE == SCALE * SCALE

(* f64::powf for a non-negative base and the exponents 1, 1.5 and 2; the   *)
(* result is at DSCALE.                                                    *)
powf(base, eta) ==
    IF eta = SCALE THEN base * SCALE
    ELSE IF eta = 2 * SCALE THEN base * base
    ELSE base * FSqrt(base)

(* numerator / denominator, all three at DSCALE.  A quotient of 10 or more *)
(* does not fit the model's integers and saturates at 10, a hundred times  *)
(* beyond the clamp.                                                       *)
raw_quotient(numerator, denominator) ==
    IF Abs(numerator) \div 10 >= denominator
    THEN Sign(numerator) * 10 * DSCALE
    ELSE LET n  == Abs(numerator)
             qr == MulDivRem(n % denominator, DSCALE, denominator)
         IN  Sign(numerator) * ((n \div denominator) * DSCALE + qr[1])

clamp_none(x, lo, hi) == x

clamp(x, lo, hi) == IF x < lo THEN lo ELSE IF x > hi THEN hi ELSE x

niv_denominator_no_floor(e, components) ==
    powf(components.slack + components.drag, e.eta)

(* denominator_base and denominator of compute_niv.                        *)
niv_denominator(e, components) ==
    LET denominator_base == components.slack + components.drag + e.epsilon
    IN  powf(denominator_base, e.eta)

(* The product of two values at SCALE is their exact product at DSCALE.    *)
(* 1e-15 is below the resolution of DSCALE: the guard is denominator = 0.  *)
(* raw_niv * 1000.0 at SCALE is raw_niv at DSCALE divided by 10.           *)
compute_niv(e, components) ==
    LET numerator == components.thrust * components.efficiency_squared
        denominator == niv_denominator(e, components)
    IN  IF Abs(denominator) < 1 THEN 0
        ELSE LET raw_niv == raw_quotient(numerator, denominator)
             IN  clamp(TruncDiv(raw_niv, 10), -100 * SCALE, 100 * SCALE)

compute_recession_probability_percent(niv_score) ==
    LET prob == FDiv(SCALE, SCALE + FExp(TruncDiv(-niv_score, 10)))
    IN  100 * (SCALE - prob)

compute_recession_probability_direct(niv_score) ==
    FDiv(SCALE, SCALE + FExp(TruncDiv(-niv_score, 10)))

compute_recession_probability(niv_score) ==
    LET prob == FDiv(SCALE, SCALE + FExp(TruncDiv(-niv_score, 10)))
    IN  SCALE - prob

calculate_single(e, x) ==
    LET components == compute_components(x)
        niv_score == compute_niv(e, components)
        recession_probability == compute_recession_probability(niv_score)
        alert_level == from_probability(recession_probability)
    IN  [date |-> x.base.date, niv_score |-> niv_score,
         recession_probability |-> recession_probability,
         components |-> components, alert_level |-> alert_level]

(* Field-wise trailing mean of apply_smoothing: sum over the window, then  *)
(* division by SMOOTH_WINDOW.                                              *)
window_avg_short(window, field) ==
    TruncDiv(SumSeq([k \in 1..Len(window) |-> window[k][field]]),
             SMOOTH_WINDOW - 1)

window_avg(window, field) ==
    TruncDiv(SumSeq([k \in 1..Len(window) |-> window[k][field]]), SMOOTH_WINDOW)

window_avg_component(window, field) ==
    TruncDiv(SumSeq([k \in 1..Len(window) |-> window[k].components[field]]),
             SMOOTH_WINDOW)

smooth_entry_copy_tag(rs, i) ==
    IF i - 1 < SMOOTH_WINDOW - 1 THEN rs[i]
    ELSE LET window_start == i + 1 - SMOOTH_WINDOW
             window   == SubSeq(rs, window_start, i)
             avg_niv  == window_avg(window, "niv_score")
             avg_prob == window_avg(window, "recession_probability")
         IN  [date |-> rs[i].date,
              niv_score |-> avg_niv,
              recession_probability |-> avg_prob,
              components |->
                  [thrust |-> window_avg_component(window, "thrust"),
                   efficiency |-> window_avg_component(window, "efficiency"),
                   efficiency_squared |->
                       window_avg_component(window, "efficiency_squared"),
                   slack |-> window_avg_component(window, "slack"),
                   drag |-> window_avg_component(window, "drag"),
                   drag_spread |-> window_avg_component(window, "drag_spread"),
                   drag_real_rate |->
                       window_avg_component(window, "drag_real_rate"),
                   drag_volatility |->
                       window_avg_component(window, "drag_volatility")],
              alert_level |-> rs[i].alert_level]

smooth_entry_late(rs, i) ==
    IF i - 1 < SMOOTH_WINDOW THEN rs[i]
    ELSE LET window_start == i + 1 - SMOOTH_WINDOW
             window   == SubSeq(rs, window_start, i)
             avg_niv  == window_avg(window, "niv_score")
             avg_prob == window_avg(window, "recession_probability")
         IN  [date |-> rs[i].date,
              niv_score |-> avg_niv,
              recession_probability |-> avg_prob,
              components |->
                  [thrust |-> window_avg_component(window, "thrust"),
                   efficiency |-> window_avg_component(window, "efficiency"),
                   efficiency_squared |->
                       window_avg_component(window, "efficiency_squared"),
                   slack |-> window_avg_component(window, "slack"),
                   drag |-> window_avg_component(window, "drag"),
                   drag_spread |-> window_avg_component(window, "drag_spread"),
                   drag_real_rate |->
                       window_avg_component(window, "drag_real_rate"),
                   drag_volatility |->
                       window_avg_component(window, "drag_volatility")],
              alert_level |-> from_probability(avg_prob)]

(* The body of the loop of apply_smoothing for the 1-based index i.        *)
smooth_entry_look_ahead(rs, i) ==
    IF i - 1 < SMOOTH_WINDOW - 1 THEN rs[i]
    ELSE LET window_end   == Min(i + 1, Len(rs))
             window_start == window_end + 1 - SMOOTH_WINDOW
             window   == SubSeq(rs, window_start, window_end)
             avg_niv  == window_avg(window, "niv_score")
             avg_prob == window_avg(window, "recession_probability")
         IN  [date |-> rs[i].date,
              niv_score |-> avg_niv,
              recession_probability |-> avg_prob,
              components |->
                  [thrust |-> window_avg_component(window, "thrust"),
                   efficiency |-> window_avg_component(window, "efficiency"),
                   efficiency_squared |->
                       window_avg_component(window, "efficiency_squared"),
                   slack |-> window_avg_component(window, "slack"),
                   drag |-> window_avg_component(window, "drag"),
                   drag_spread |-> window_avg_component(window, "drag_spread"),
                   drag_real_rate |->
                       window_avg_component(window, "drag_real_rate"),
                   drag_volatility |->
                       window_avg_component(window, "drag_volatility")],
              alert_level |-> from_probability(avg_prob)]

smooth_entry(rs, i) ==
    IF i - 1 < SMOOTH_WINDOW - 1 THEN rs[i]
    ELSE LET window_start == i + 1 - SMOOTH_WINDOW
             window   == SubSeq(rs, window_start, i)
             avg_niv  == window_avg(window, "niv_score")
             avg_prob == window_avg(window, "recession_probability")
         IN  [date |-> rs[i].date,
              niv_score |-> avg_niv,
              recession_probability |-> avg_prob,
              components |->
                  [thrust |-> window_avg_component(window, "thrust"),
                   efficiency |-> window_avg_component(window, "efficiency"),
                   efficiency_squared |->
                       window_avg_component(window, "efficiency_squared"),
                   slack |-> window_avg_component(window, "slack"),
                   drag |-> window_avg_component(window, "drag"),
                   drag_spread |-> window_avg_component(window, "drag_spread"),
                   drag_real_rate |->
                       window_avg_component(window, "drag_real_rate"),
                   drag_volatility |->
                       window_avg_component(window, "drag_volatility")],
              alert_level |-> from_probability(avg_prob)]

apply_smoothing_drop_short(rs) ==
    LET n == Len(rs)
    IN  IF n < SMOOTH_WINDOW THEN <<>>
        ELSE [i \in 1..n |-> smooth_entry(rs, i)]

apply_smoothing(rs) ==
    LET n == Len(rs)
    IN  IF n < SMOOTH_WINDOW THEN rs
        ELSE [i \in 1..n |-> smooth_entry(rs, i)]

(* The second pass of calculate_series: one raw result per extended record. *)
raw_series(e, d) ==
    LET extended == compute_extended_data(d)
    IN  [k \in 1..Len(extended) |-> calculate_single(e, extended[k])]

too_short_inclusive(d) == Len(d) <= 13

(* The early return of calculate_series.                                   *)
too_short(d) == Len(d) < 13

calculate_series(e, d) ==
    IF too_short(d) THEN <<>>
    ELSE apply_smoothing(raw_series(e, d))

(* Vec::with_capacity(data.len() - 12) of compute_extended_data: the usize *)
(* subtraction underflows, and the call panics, below 12 records.          *)
calculate_series_panics(d) == ~too_short(d) /\ Len(d) - 12 < 0

--------------------------------------------------------------------------
(* Input series.  A series is built from two monthly observations a and b: *)
(* the months the shape selects carry b, the others a.                     *)

MaxLen == 26

Observations ==
    [sample  |-> [investment |-> 4000 * SCALE, m2_supply |-> 21000 * SCALE,
                  fed_funds_rate |-> 52500, gdp |-> 28000 * SCALE,
                  capacity_util |-> 785000, yield_spread |-> -5000,
                  cpi_inflation |-> 32000],
     boom    |-> [investment |-> 4020 * SCALE, m2_supply |-> 21315 * SCALE,
                  fed_funds_rate |-> 50000, gdp |-> 28100 * SCALE,
                  capacity_util |-> 800000, yield_spread |-> 15000,
                  cpi_inflation |-> 25000],
     bust    |-> [investment |-> 3960 * SCALE, m2_supply |-> 20580 * SCALE,
                  fed_funds_rate |-> 55000, gdp |-> 27900 * SCALE,
                  capacity_util |-> 750000, yield_spread |-> -10000,
                  cpi_inflation |-> 20000],
     idle    |-> [investment |-> 0, m2_supply |-> 0,
                  fed_funds_rate |-> 2500, gdp |-> 0,
                  capacity_util |-> 0, yield_spread |-> 0,
                  cpi_inflation |-> 0],
     fullcap |-> [investment |-> 4000 * SCALE, m2_supply |-> 21000 * SCALE,
                  fed_funds_rate |-> 0, gdp |-> 28000 * SCALE,
                  capacity_util |-> 1000000, yield_spread |-> 20000,
                  cpi_inflation |-> 50000],
     hot     |-> [investment |-> 4000 * SCALE, m2_supply |-> 21210 * SCALE,
                  fed_funds_rate |-> 0, gdp |-> 28000 * SCALE,
                  capacity_util |-> 1000000, yield_spread |-> 0,
                  cpi_inflation |-> 0],
     slump   |-> [investment |-> -100 * SCALE, m2_supply |-> -50 * SCALE,
                  fed_funds_rate |-> 52500, gdp |-> -10 * SCALE,
                  capacity_util |-> 500000, yield_spread |-> -5000,
                  cpi_inflation |-> 32000]]

(* The kinds every series is built from, and the kinds only a sample       *)
(* series is interrupted by.                                               *)
EdgeKinds == {"slump"}

Kinds == (DOMAIN Observations) \ EdgeKinds

Shapes == {"step", "alt", "spike"}

EdgeShapes == Shapes \cup {"dip"}

(* Whether the 0-based month i of a series of the given shape carries b.   *)
InShape(shape, i) ==
    CASE shape = "step"  -> i >= 13
      [] shape = "alt"   -> i % 2 = 1
      [] shape = "spike" -> i = 16
      [] shape = "dip"   -> i = 13

StartDates == {Ymd(2007, 1)}

EconomicData(date, kind) ==
    [date |-> date,
     investment |-> Observations[kind].investment,
     m2_supply |-> Observations[kind].m2_supply,
     fed_funds_rate |-> Observations[kind].fed_funds_rate,
     gdp |-> Observations[kind].gdp,
     capacity_util |-> Observations[kind].capacity_util,
     yield_spread |-> Observations[kind].yield_spread,
     cpi_inflation |-> Observations[kind].cpi_inflation]

Series(n, start, a, b, shape) ==
    [i \in 1..n |-> EconomicData(start + (i - 1),
                                 IF InShape(shape, i - 1) THEN b ELSE a)]

(* A series with a calendar gap: six months are missing after the 14th     *)
(* record.                                                                 *)
Gapped(d) ==
    [i \in 1..Len(d) |->
        [d[i] EXCEPT !.date = IF i > 14 THEN d[i].date + 6 ELSE d[i].date]]

InputSeries ==
    {Series(n, start, a, b, shape) :
        n \in 0..MaxLen, start \in StartDates, a \in Kinds, b \in Kinds,
        shape \in Shapes}
    \cup {Series(n, start, "sample", b, shape) :
              n \in 0..MaxLen, start \in StartDates, b \in EdgeKinds,
              shape \in EdgeShapes}
    \cup {Gapped(Series(n, start, "sample", b, shape)) :
              n \in 0..MaxLen, start \in StartDates, b \in {"boom", "bust"},
              shape \in Shapes}

--------------------------------------------------------------------------
(* The engine as main.rs runs it: construct, load a series, calculate.     *)

NoValidation == [passed |-> TRUE, checks |-> <<>>]

Init ==
    /\ engine = NIVEngine_new
    /\ data \in InputSeries
    /\ extended_data = <<>>
    /\ raw_results = <<>>
    /\ results = <<>>
    /\ validation = NoValidation
    /\ pc = "loaded"
    /\ calls = <<>>
    /\ tasks = <<>>
    /\ monte_carlo = <<>>

(* engine.calculate_series(&data); extended_data and raw_results record    *)
(* the first and the second pass.                                          *)
CalculateSeries ==
    /\ pc = "loaded"
    /\ IF calculate_series_panics(data)
       THEN /\ pc' = "panicked"
            /\ UNCHANGED <<monte_carlo, extended_data, raw_results, results>>
       ELSE /\ pc' = "calculated"
            /\ extended_data' = IF too_short(data) THEN <<>>
                                ELSE compute_extended_data(data)
            /\ raw_results' = IF too_short(data) THEN <<>>
                              ELSE raw_series(engine, data)
            /\ results' = calculate_series(engine, data)
    /\ UNCHANGED <<monte_carlo, engine, data, validation, calls, tasks>>

Next == CalculateSeries

Spec == Init /\ [][Next]_vars

--------------------------------------------------------------------------
(* AlertLevel::from_probability on its own: a log of at most MaxCalls      *)
(* calls, each on a probability of the grid.                               *)

MaxCalls == 2

ProbStep == 500

ProbGrid ==
    {k * ProbStep : k \in -1..((SCALE \div ProbStep) + 1)}
    \cup {t + o : t \in {3000, 5000, 7000}, o \in {-1, 0, 1}}

InitAlert ==
    /\ engine = NIVEngine_new
    /\ data = <<>>
    /\ extended_data = <<>>
    /\ raw_results = <<>>
    /\ results = <<>>
    /\ validation = NoValidation
    /\ pc = "unit"
    /\ calls = <<>>
    /\ tasks = <<>>
    /\ monte_carlo = <<>>

FromProbability(p) ==
    /\ Len(calls) < MaxCalls
    /\ calls' = Append(calls, [fn |-> "from_probability", arg |-> p,
                               ret |-> from_probability(p),
                               ret_v1 |-> from_probability_v1(p)])
    /\ UNCHANGED <<monte_carlo, engine, data, extended_data, raw_results, results,
                   validation,
                   pc, tasks>>

NextAlert == \E p \in ProbGrid : FromProbability(p)

SpecAlert == InitAlert /\ [][NextAlert]_vars

--------------------------------------------------------------------------
(* compute_recession_probability called on its own, as the unit test does: *)
(* a log of calls on scores over the clamped range, close to zero and on   *)
(* the scores the test uses.                                               *)

ScoreStep == 10 * SCALE

ScoreGrid ==
    {k * ScoreStep : k \in -10..10}
    \cup (-12..12)
    \cup {s * SCALE : s \in {-20, -1, 1, 20}}

InitProb ==
    /\ engine = NIVEngine_new
    /\ data = <<>>
    /\ extended_data = <<>>
    /\ raw_results = <<>>
    /\ results = <<>>
    /\ validation = NoValidation
    /\ pc = "probability"
    /\ calls = <<>>
    /\ tasks = <<>>
    /\ monte_carlo = <<>>

ComputeRecessionProbability(s) ==
    /\ Len(calls) < MaxCalls
    /\ calls' = Append(calls, [fn |-> "compute_recession_probability",
                               arg |-> s,
                               ret |-> compute_recession_probability(s)])
    /\ UNCHANGED <<monte_carlo, engine, data, extended_data, raw_results, results,
                   validation, pc, tasks>>

NextProb == \E s \in ScoreGrid : ComputeRecessionProbability(s)

SpecProb == InitProb /\ [][NextProb]_vars

--------------------------------------------------------------------------
(* Benchmark validation: validate_against_benchmarks over a result slice.  *)

(* The extended record of the unit tests.                                  *)
sample_extended_data ==
    [base |-> EconomicData(Ymd(2024, 1), "sample"),
     dg |-> 5000, da |-> 40000, dr |-> 0, sigma_r |-> 12000]

(* The components the unit tests compute from it.                          *)
sample_components == compute_components(sample_extended_data)

NEG_INFINITY == -2147483647

RECURSIVE fold_max(_, _)
fold_max(init, xs) ==
    IF xs = <<>> THEN init ELSE fold_max(Max(init, Head(xs)), Tail(xs))

(* format!("{:.N}", v): v as a count of units of the last printed digit,   *)
(* rounded to nearest, ties to even.                                       *)
format_fixed(v, unit) ==
    LET q == v \div unit
        r == v % unit
    IN  IF 2 * r < unit THEN q
        ELSE IF 2 * r > unit THEN q + 1
        ELSE IF q % 2 = 0 THEN q ELSE q + 1

ValidationCheck(name, expected, actual, passed) ==
    [name |-> name, expected |-> expected, actual |-> actual,
     passed |-> passed]

(* Each check yields <<>> when its window holds no result.                 *)
covid_check_inclusive(rs) ==
    LET covid_results ==
            SelectSeq(rs, LAMBDA r : /\ Year(r.date) = 2020
                                     /\ Month(r.date) >= 3
                                     /\ Month(r.date) <= 6)
    IN  IF covid_results = <<>> THEN <<>>
        ELSE LET max_niv ==
                     fold_max(NEG_INFINITY,
                              [k \in 1..Len(covid_results) |->
                                   covid_results[k].niv_score])
             IN  << ValidationCheck("2020 COVID Response",
                                    "NIV > 20 (M2 explosion)",
                                    <<"Max NIV = ",
                                      format_fixed(max_niv, SCALE \div 100)>>,
                                    max_niv >= 20 * SCALE) >>

covid_check(rs) ==
    LET covid_results ==
            SelectSeq(rs, LAMBDA r : /\ Year(r.date) = 2020
                                     /\ Month(r.date) >= 3
                                     /\ Month(r.date) <= 6)
    IN  IF covid_results = <<>> THEN <<>>
        ELSE LET max_niv ==
                     fold_max(NEG_INFINITY,
                              [k \in 1..Len(covid_results) |->
                                   covid_results[k].niv_score])
             IN  << ValidationCheck("2020 COVID Response",
                                    "NIV > 20 (M2 explosion)",
                                    <<"Max NIV = ",
                                      format_fixed(max_niv, SCALE \div 100)>>,
                                    max_niv > 20 * SCALE) >>

gfc_check_always(rs) ==
    LET gfc_results == SelectSeq(rs, LAMBDA r : Year(r.date) = 2008)
        max_prob ==
            fold_max(0, [k \in 1..Len(gfc_results) |->
                             gfc_results[k].recession_probability])
    IN  << ValidationCheck("2008 GFC Detection",
                           "Recession probability > 50%",
                           <<format_fixed(max_prob * 100, SCALE \div 10), "%">>,
                           max_prob > SCALE \div 2) >>

gfc_check_inclusive(rs) ==
    LET gfc_results == SelectSeq(rs, LAMBDA r : Year(r.date) = 2008)
    IN  IF gfc_results = <<>> THEN <<>>
        ELSE LET max_prob ==
                     fold_max(0, [k \in 1..Len(gfc_results) |->
                                      gfc_results[k].recession_probability])
             IN  << ValidationCheck("2008 GFC Detection",
                                    "Recession probability > 50%",
                                    <<format_fixed(max_prob * 100,
                                                   SCALE \div 10), "%">>,
                                    max_prob >= SCALE \div 2) >>

gfc_check(rs) ==
    LET gfc_results == SelectSeq(rs, LAMBDA r : Year(r.date) = 2008)
    IN  IF gfc_results = <<>> THEN <<>>
        ELSE LET max_prob ==
                     fold_max(0, [k \in 1..Len(gfc_results) |->
                                      gfc_results[k].recession_probability])
             IN  << ValidationCheck("2008 GFC Detection",
                                    "Recession probability > 50%",
                                    <<format_fixed(max_prob * 100,
                                                   SCALE \div 10), "%">>,
                                    max_prob > SCALE \div 2) >>

stable_check_inclusive(rs) ==
    LET stable_results ==
            SelectSeq(rs, LAMBDA r : Year(r.date) = 2017 \/ Year(r.date) = 2018)
    IN  IF stable_results = <<>> THEN <<>>
        ELSE LET avg_prob ==
                     TruncDiv(SumSeq([k \in 1..Len(stable_results) |->
                                  stable_results[k].recession_probability]),
                              Len(stable_results))
             IN  << ValidationCheck("2017-2018 Stability",
                                    "Average recession probability < 30%",
                                    <<format_fixed(avg_prob * 100,
                                                   SCALE \div 10), "%">>,
                                    avg_prob <= (3 * SCALE) \div 10) >>

stable_check(rs) ==
    LET stable_results ==
            SelectSeq(rs, LAMBDA r : Year(r.date) = 2017 \/ Year(r.date) = 2018)
    IN  IF stable_results = <<>> THEN <<>>
        ELSE LET avg_prob ==
                     TruncDiv(SumSeq([k \in 1..Len(stable_results) |->
                                  stable_results[k].recession_probability]),
                              Len(stable_results))
             IN  << ValidationCheck("2017-2018 Stability",
                                    "Average recession probability < 30%",
                                    <<format_fixed(avg_prob * 100,
                                                   SCALE \div 10), "%">>,
                                    avg_prob < (3 * SCALE) \div 10) >>

(* if !check.passed { validation.passed = false; }                          *)
(* validation.checks.push(check);                                           *)
push_check_last(v, check) ==
    [passed |-> check.passed, checks |-> Append(v.checks, check)]

push_check(v, check) ==
    [passed |-> IF ~check.passed THEN FALSE ELSE v.passed,
     checks |-> Append(v.checks, check)]

apply_check(v, found) ==
    IF found = <<>> THEN v ELSE push_check(v, found[1])

validate_against_benchmarks(rs) ==
    apply_check(apply_check(apply_check(NoValidation, covid_check(rs)),
                            gfc_check(rs)),
                stable_check(rs))

(* Result slices handed to validate_against_benchmarks: up to MaxResults   *)
(* results in date order, on months inside and just outside the three      *)
(* windows, with scores and probabilities on and next to the thresholds.   *)
MaxResults == 3

BenchDates ==
    {Ymd(2007, 12), Ymd(2008, 1), Ymd(2008, 12), Ymd(2016, 12), Ymd(2017, 1),
     Ymd(2018, 12), Ymd(2019, 1), Ymd(2020, 2), Ymd(2020, 3), Ymd(2020, 6),
     Ymd(2020, 7)}

BenchLevels ==
    { <<20 * SCALE, (3 * SCALE) \div 10>>,
      <<20 * SCALE + 1, (SCALE \div 2) + 1>>,
      <<-30 * SCALE, SCALE \div 2>>,
      <<10 * SCALE, ((3 * SCALE) \div 10) - 1>> }

NIVResult(date, level) ==
    [date |-> date, niv_score |-> level[1],
     recession_probability |-> level[2],
     components |-> sample_components,
     alert_level |-> from_probability(level[2])]

RECURSIVE Ascending(_)
Ascending(S) ==
    IF S = {} THEN <<>>
    ELSE LET m == CHOOSE x \in S : \A y \in S : x <= y
         IN  <<m>> \o Ascending(S \ {m})

ResultSlice(dates, levels) ==
    [k \in 1..Len(dates) |-> NIVResult(dates[k], levels[k])]

InitValidate ==
    /\ engine = NIVEngine_new
    /\ data = <<>>
    /\ extended_data = <<>>
    /\ raw_results = <<>>
    /\ \E S \in {T \in SUBSET BenchDates : Cardinality(T) <= MaxResults} :
           \E levels \in [1..Cardinality(S) -> BenchLevels] :
               results = ResultSlice(Ascending(S), levels)
    /\ validation = NoValidation
    /\ pc = "results"
    /\ calls = <<>>
    /\ tasks = <<>>
    /\ monte_carlo = <<>>

Validate ==
    /\ pc = "results"
    /\ validation' = validate_against_benchmarks(results)
    /\ pc' = "validated"
    /\ UNCHANGED <<monte_carlo, engine, data, extended_data, raw_results, results, calls,
                   tasks>>

NextValidate == Validate

SpecValidate == InitValidate /\ [][NextValidate]_vars

--------------------------------------------------------------------------
(* compute_components called on its own, as the unit tests do: one         *)
(* extended record, sample_extended_data among them.                       *)

ExtendedInputs ==
    [base : {EconomicData(Ymd(2024, 1), kind) : kind \in DOMAIN Observations},
     dg : {-5000, 0, 5000}, da : {0, 40000}, dr : {-2500, 0, 2500},
     sigma_r : {0, 12000}]

InitComponents ==
    /\ engine = NIVEngine_new
    /\ data = <<>>
    /\ \E x \in ExtendedInputs : extended_data = <<x>>
    /\ raw_results = <<>>
    /\ results = <<>>
    /\ validation = NoValidation
    /\ pc = "components"
    /\ calls = <<>>
    /\ tasks = <<>>
    /\ monte_carlo = <<>>

ComputeComponents ==
    /\ pc = "components"
    /\ calls = <<>>
    /\ calls' = <<[fn |-> "compute_components", arg |-> extended_data[1],
                   ret |-> compute_components(extended_data[1])]>>
    /\ UNCHANGED <<monte_carlo, engine, data, extended_data, raw_results, results,
                   validation, pc, tasks>>

NextComponents == ComputeComponents

SpecComponents == InitComponents /\ [][NextComponents]_vars

--------------------------------------------------------------------------
(* One engine shared by concurrent callers, as AppState holds it: every    *)
(* task runs one call of calculate_series or validate_against_benchmarks   *)
(* through &self, pass by pass, its buffers local to the call.             *)

MaxTasks == 2

TaskCalls ==
    {[op |-> "calculate_series", input |-> d] :
        d \in {Series(5, Ymd(2007, 1), "sample", "boom", "alt"),
               Series(13, Ymd(2007, 1), "boom", "bust", "step"),
               Series(14, Ymd(2007, 1), "sample", "hot", "alt")}}
    \cup
    {[op |-> "validate_against_benchmarks", input |-> r] :
        r \in {ResultSlice(<<Ymd(2008, 12), Ymd(2020, 6)>>,
                           << <<-30 * SCALE, SCALE \div 2>>,
                              <<20 * SCALE + 1, (SCALE \div 2) + 1>> >>),
               ResultSlice(<<Ymd(2017, 1)>>,
                           << <<10 * SCALE, ((3 * SCALE) \div 10) - 1>> >>)}}

NewTask(call) ==
    [op |-> call.op, input |-> call.input, pc |-> "called",
     extended |-> <<>>, raw_results |-> <<>>, validation |-> NoValidation,
     out |-> <<>>]

(* let extended = self.compute_extended_data(data): a local of the call.   *)
extended_buffer_shared(ts, t) == ts[1].extended

extended_buffer(ts, t) == ts[t].extended

InitConcurrent ==
    /\ engine = NIVEngine_new
    /\ data = <<>>
    /\ extended_data = <<>>
    /\ raw_results = <<>>
    /\ results = <<>>
    /\ validation = NoValidation
    /\ pc = "serving"
    /\ calls = <<>>
    /\ \E cs \in [1..MaxTasks -> TaskCalls] :
           tasks = [t \in 1..MaxTasks |-> NewTask(cs[t])]
    /\ monte_carlo = <<>>

FirstPass(t) ==
    /\ tasks[t].op = "calculate_series"
    /\ tasks[t].pc = "called"
    /\ tasks' = IF too_short(tasks[t].input)
                THEN [tasks EXCEPT ![t].out = <<>>, ![t].pc = "returned"]
                ELSE [tasks EXCEPT
                          ![t].extended = compute_extended_data(tasks[t].input),
                          ![t].pc = "second_pass"]
    /\ UNCHANGED <<monte_carlo, engine, data, extended_data, raw_results, results,
                   validation, pc, calls>>

SecondPass(t) ==
    /\ tasks[t].pc = "second_pass"
    /\ tasks' = [tasks EXCEPT
                     ![t].raw_results =
                         [k \in 1..Len(extended_buffer(tasks, t)) |->
                              calculate_single(engine,
                                               extended_buffer(tasks, t)[k])],
                     ![t].pc = "third_pass"]
    /\ UNCHANGED <<monte_carlo, engine, data, extended_data, raw_results, results,
                   validation, pc, calls>>

ThirdPass(t) ==
    /\ tasks[t].pc = "third_pass"
    /\ tasks' = [tasks EXCEPT
                     ![t].out = apply_smoothing(tasks[t].raw_results),
                     ![t].pc = "returned"]
    /\ UNCHANGED <<monte_carlo, engine, data, extended_data, raw_results, results,
                   validation, pc, calls>>

CovidCheck(t) ==
    /\ tasks[t].op = "validate_against_benchmarks"
    /\ tasks[t].pc = "called"
    /\ tasks' = [tasks EXCEPT
                     ![t].validation =
                         apply_check(NoValidation, covid_check(tasks[t].input)),
                     ![t].pc = "gfc_check"]
    /\ UNCHANGED <<monte_carlo, engine, data, extended_data, raw_results, results,
                   validation, pc, calls>>

GfcCheck(t) ==
    /\ tasks[t].pc = "gfc_check"
    /\ tasks' = [tasks EXCEPT
                     ![t].validation =
                         apply_check(tasks[t].validation,
                                     gfc_check(tasks[t].input)),
                     ![t].pc = "stable_check"]
    /\ UNCHANGED <<monte_carlo, engine, data, extended_data, raw_results, results,
                   validation, pc, calls>>

StableCheck(t) ==
    /\ tasks[t].pc = "stable_check"
    /\ tasks' = [tasks EXCEPT
                     ![t].out =
                         apply_check(tasks[t].validation,
                                     stable_check(tasks[t].input)),
                     ![t].pc = "returned"]
    /\ UNCHANGED <<monte_carlo, engine, data, extended_data, raw_results, results,
                   validation, pc, calls>>

NextConcurrent ==
    \E t \in 1..MaxTasks :
        \/ FirstPass(t)
        \/ SecondPass(t)
        \/ ThirdPass(t)
        \/ CovidCheck(t)
        \/ GfcCheck(t)
        \/ StableCheck(t)

SpecConcurrent == InitConcurrent /\ [][NextConcurrent]_vars

--------------------------------------------------------------------------
(* The older engine's /simulate handler (src/src/main.rs): the smoother    *)
(* with a configurable window, applied to a result slice.                  *)

(* fn apply_custom_smoothing(results, window), for the 1-based index i.    *)
custom_smooth_entry(rs, window, i) ==
    IF i - 1 < window - 1 THEN rs[i]
    ELSE LET window_slice == SubSeq(rs, i + 1 - window, i)
             avg_niv ==
                 TruncDiv(SumSeq([k \in 1..Len(window_slice) |->
                                      window_slice[k].niv_score]), window)
             avg_prob ==
                 TruncDiv(SumSeq([k \in 1..Len(window_slice) |->
                              window_slice[k].recession_probability]), window)
         IN  [date |-> rs[i].date, niv_score |-> avg_niv,
              recession_probability |-> avg_prob,
              components |-> rs[i].components,
              alert_level |-> from_probability_v1(avg_prob)]

apply_custom_smoothing(rs, window) ==
    IF Len(rs) < window THEN rs
    ELSE [i \in 1..Len(rs) |-> custom_smooth_entry(rs, window, i)]

(* Result slices of the older engine: up to MaxSlice months, each on one   *)
(* of three levels, and windows of 1 to MaxWindow.                         *)
MaxSlice == 4

MaxWindow == 4

SimLevels ==
    { [niv_score |-> 25 * SCALE, recession_probability |-> SCALE \div 10,
       components |-> [thrust |-> (4 * SCALE) \div 10,
                       efficiency |-> (16 * SCALE) \div 100,
                       slack |-> (2 * SCALE) \div 10,
                       drag |-> SCALE \div 100]],
      [niv_score |-> -40 * SCALE, recession_probability |-> (9 * SCALE) \div 10,
       components |-> [thrust |-> -(8 * SCALE) \div 10,
                       efficiency |-> (12 * SCALE) \div 100,
                       slack |-> (3 * SCALE) \div 10,
                       drag |-> (5 * SCALE) \div 100]],
      [niv_score |-> 0, recession_probability |-> SCALE \div 2,
       components |-> [thrust |-> 0, efficiency |-> 0,
                       slack |-> 0, drag |-> 0]] }

SimResult(i, level) ==
    [date |-> Ymd(2020, 1) + (i - 1), niv_score |-> level.niv_score,
     recession_probability |-> level.recession_probability,
     components |-> level.components,
     alert_level |-> from_probability_v1(level.recession_probability)]

InitCustom ==
    /\ engine = NIVEngine_new
    /\ data = <<>>
    /\ extended_data = <<>>
    /\ \E n \in 0..MaxSlice : \E levels \in [1..n -> SimLevels] :
           raw_results = [i \in 1..n |-> SimResult(i, levels[i])]
    /\ results = <<>>
    /\ validation = NoValidation
    /\ pc = "simulate"
    /\ calls = <<>>
    /\ tasks = <<>>
    /\ monte_carlo = <<>>

ApplyCustomSmoothing(window) ==
    /\ pc = "simulate"
    /\ calls = <<>>
    /\ calls' = <<[fn |-> "apply_custom_smoothing", arg |-> raw_results,
                   window |-> window,
                   ret |-> apply_custom_smoothing(raw_results, window)]>>
    /\ results' = apply_custom_smoothing(raw_results, window)
    /\ UNCHANGED <<monte_carlo, engine, data, extended_data, raw_results, validation, pc,
                   tasks>>

NextCustom == \E window \in 1..MaxWindow : ApplyCustomSmoothing(window)

SpecCustom == InitCustom /\ [][NextCustom]_vars

--------------------------------------------------------------------------
(* The older engine's /monte-carlo handler (src/src/main.rs): one request  *)
(* of run_monte_carlo over the stored results, draw by draw.               *)

MaxDraws == 2

(* Values of hasher.finish() as usize.                                     *)
Hashes == {0, 1, 2, 3, 7}

(* draws.sort_by(partial_cmp): insertion of one draw into sorted draws.    *)
RECURSIVE insert_draw(_, _)
insert_draw(sorted, d) ==
    IF sorted = <<>> THEN <<d>>
    ELSE IF d.value < Head(sorted).value THEN <<d>> \o sorted
    ELSE <<Head(sorted)>> \o insert_draw(Tail(sorted), d)

RECURSIVE sort_draws(_)
sort_draws(draws) ==
    IF draws = <<>> THEN <<>>
    ELSE insert_draw(sort_draws(SubSeq(draws, 1, Len(draws) - 1)),
                     draws[Len(draws)])

(* let idx = ((num_draws as f64 * p) as usize).min(num_draws - 1), for p   *)
(* in hundredths.                                                          *)
percentile_index(num_draws, p) == Min((num_draws * p) \div 100, num_draws - 1)

Percentiles == {5, 10, 25, 50, 75, 90, 95}

InitMonteCarlo ==
    /\ engine = NIVEngine_new
    /\ data = <<>>
    /\ extended_data = <<>>
    /\ raw_results = <<>>
    /\ \E n \in 0..MaxSlice : \E level \in SimLevels :
           results = [i \in 1..n |-> SimResult(i, level)]
    /\ validation = NoValidation
    /\ pc = "request"
    /\ calls = <<>>
    /\ tasks = <<>>
    /\ \E num_draws \in 0..MaxDraws : \E window_size \in 0..(MaxSlice + 1) :
           monte_carlo = [num_draws |-> num_draws, window_size |-> window_size,
                          i |-> 0, draws |-> <<>>, response |-> "none",
                          percentiles |-> <<>>]

(* if data.len() < window_size { return Err(.. INSUFFICIENT_DATA ..) }      *)
CheckData ==
    /\ pc = "request"
    /\ IF Len(results) < monte_carlo.window_size
       THEN /\ monte_carlo' =
                   [monte_carlo EXCEPT !.response = "INSUFFICIENT_DATA"]
            /\ pc' = "responded"
       ELSE /\ pc' = "drawing"
            /\ UNCHANGED monte_carlo
    /\ UNCHANGED <<engine, data, extended_data, raw_results, results,
                   validation, calls, tasks>>

(* One iteration of for i in 0..num_draws.                                 *)
Draw(hash) ==
    /\ pc = "drawing"
    /\ monte_carlo.i < monte_carlo.num_draws
    /\ LET window_size == monte_carlo.window_size
           span == Len(results) - window_size
       IN  IF span = 0
           THEN /\ pc' = "panicked"
                /\ monte_carlo' =
                       [monte_carlo EXCEPT !.response =
                            "remainder with a divisor of zero"]
           ELSE LET start_idx == hash % span
                IN  IF start_idx + window_size > Len(results)
                    THEN /\ pc' = "panicked"
                         /\ monte_carlo' =
                                [monte_carlo EXCEPT !.response =
                                     "range end index out of range"]
                    ELSE LET window == SubSeq(results, start_idx + 1,
                                              start_idx + window_size)
                             total ==
                                 SumSeq([k \in 1..Len(window) |->
                                     window[k].recession_probability])
                             avg_prob == IF window_size = 0 THEN "NaN"
                                         ELSE TruncDiv(total, window_size)
                         IN  /\ monte_carlo' =
                                    [monte_carlo EXCEPT
                                         !.i = @ + 1,
                                         !.draws = Append(@,
                                             [start_idx |-> start_idx,
                                              value |->
                                                  IF window_size = 0
                                                  THEN "NaN"
                                                  ELSE avg_prob * 100])]
                             /\ UNCHANGED pc
    /\ UNCHANGED <<engine, data, extended_data, raw_results, results,
                   validation, calls, tasks>>

(* After the loop: sort, percentiles, response.  With num_draws = 0 the    *)
(* subtraction num_draws - 1 overflows: a debug build panics on it, a     *)
(* release build wraps and panics on draws[0].                             *)
Respond ==
    /\ pc = "drawing"
    /\ monte_carlo.i = monte_carlo.num_draws
    /\ IF monte_carlo.num_draws = 0
       THEN /\ pc' = "panicked"
            /\ \E cause \in {"attempt to subtract with overflow",
                             "index out of bounds"} :
                   monte_carlo' = [monte_carlo EXCEPT !.response = cause]
       ELSE /\ pc' = "responded"
            /\ monte_carlo' =
                   [monte_carlo EXCEPT
                        !.draws = IF monte_carlo.window_size = 0 THEN @
                                  ELSE sort_draws(@),
                        !.percentiles =
                            [p \in Percentiles |->
                                 percentile_index(monte_carlo.num_draws, p)],
                        !.response = "ok"]
    /\ UNCHANGED <<engine, data, extended_data, raw_results, results,
                   validation, calls, tasks>>

NextMonteCarlo ==
    \/ CheckData
    \/ \E hash \in Hashes : Draw(hash)
    \/ Respond

SpecMonteCarlo == InitMonteCarlo /\ [][NextMonteCarlo]_vars

--------------------------------------------------------------------------
(* RecessionPeriods of both engines.  A NaiveDate with its day of month:   *)
(* an order-preserving number.                                             *)

NaiveDate(year, month, day) == Ymd(year, month) * 31 + (day - 1)

(* rust-engine/src/niv.rs                                                  *)
known_recessions ==
    << <<NaiveDate(2020, 2, 1),  NaiveDate(2020, 4, 1)>>,
       <<NaiveDate(2007, 12, 1), NaiveDate(2009, 6, 1)>>,
       <<NaiveDate(2001, 3, 1),  NaiveDate(2001, 11, 1)>>,
       <<NaiveDate(1990, 7, 1),  NaiveDate(1991, 3, 1)>>,
       <<NaiveDate(1981, 7, 1),  NaiveDate(1982, 11, 1)>>,
       <<NaiveDate(1980, 1, 1),  NaiveDate(1980, 7, 1)>>,
       <<NaiveDate(1973, 11, 1), NaiveDate(1975, 3, 1)>>,
       <<NaiveDate(1969, 12, 1), NaiveDate(1970, 11, 1)>> >>

(* src/src/niv.rs                                                          *)
known_recessions_v1 ==
    << <<NaiveDate(2007, 12, 1), NaiveDate(2009, 6, 1)>>,
       <<NaiveDate(2020, 2, 1),  NaiveDate(2020, 4, 1)>>,
       <<NaiveDate(2001, 3, 1),  NaiveDate(2001, 11, 1)>>,
       <<NaiveDate(1990, 7, 1),  NaiveDate(1991, 3, 1)>>,
       <<NaiveDate(1981, 7, 1),  NaiveDate(1982, 11, 1)>>,
       <<NaiveDate(1980, 1, 1),  NaiveDate(1980, 7, 1)>>,
       <<NaiveDate(1973, 11, 1), NaiveDate(1975, 3, 1)>>,
       <<NaiveDate(1969, 12, 1), NaiveDate(1970, 11, 1)>> >>

is_recession_exclusive_end(date) ==
    \E k \in 1..Len(known_recessions) :
        date >= known_recessions[k][1] /\ date < known_recessions[k][2]

is_recession(date) ==
    \E k \in 1..Len(known_recessions) :
        date >= known_recessions[k][1] /\ date <= known_recessions[k][2]

is_recession_v1(date) ==
    \E k \in 1..Len(known_recessions_v1) :
        date >= known_recessions_v1[k][1] /\ date <= known_recessions_v1[k][2]

(* The dates asked about: the first, second and last day of every month    *)
(* from FirstYear to LastYear.                                             *)
FirstYear == 1968

LastYear == 2021

InitRecession ==
    /\ engine = NIVEngine_new
    /\ data = <<>>
    /\ extended_data = <<>>
    /\ raw_results = <<>>
    /\ results = <<>>
    /\ validation = NoValidation
    /\ pc = "labeling"
    /\ calls = <<>>
    /\ tasks = <<>>
    /\ monte_carlo = <<>>

IsRecession(date) ==
    /\ pc = "labeling"
    /\ calls = <<>>
    /\ calls' = <<[fn |-> "is_recession", arg |-> date,
                   table |-> known_recessions,
                   ret |-> is_recession(date),
                   ret_v1 |-> is_recession_v1(date)]>>
    /\ UNCHANGED <<engine, data, extended_data, raw_results, results,
                   validation, pc, tasks, monte_carlo>>

NextRecession ==
    \E year \in FirstYear..LastYear : \E month \in 1..12 :
        \E day \in {1, 2, 28} : IsRecession(NaiveDate(year, month, day))

SpecRecession == InitRecession /\ [][NextRecession]_vars

--------------------------------------------------------------------------
(* mock::generate_mock_data of fred.rs.                                    *)

PI == 31416

(* The Taylor series of sin on [0, PI / 2], up to the ninth power.         *)
sin_series(x) ==
    LET x2 == FMul(x, x)
        x3 == FMul(x2, x)
        x5 == FMul(x3, x2)
        x7 == FMul(x5, x2)
        x9 == FMul(x7, x2)
    IN  x - x3 \div 6 + x5 \div 120 - x7 \div 5040 + x9 \div 362880

(* f64::sin: the argument is reduced to one turn, then to a quarter turn.  *)
sin(x) ==
    LET r == x % (2 * PI)
    IN  IF 2 * r <= PI THEN sin_series(r)
        ELSE IF r <= PI THEN sin_series(PI - r)
        ELSE IF 2 * r <= 3 * PI THEN -sin_series(r - PI)
        ELSE -sin_series(2 * PI - r)

(* (1.03).powf(x), (1.06).powf(x) and (1.025).powf(x), as exp(x * ln b).   *)
powf_1_03(x) == FExp(FMul(x, 296))

powf_1_06(x) == FExp(FMul(x, 583))

powf_1_025(x) == FExp(FMul(x, 247))

(* NaiveDate::from_ymd_opt(year, month, 1): None outside the years chrono  *)
(* represents or for a month that does not exist.                          *)
from_ymd_opt(year, month) ==
    IF year >= -262143 /\ year <= 262142 /\ month \in 1..12
    THEN [some |-> TRUE, date |-> Ymd(year, month)]
    ELSE [some |-> FALSE]

is_recession_period(year, month) ==
    \/ year = 2008 /\ month \in 1..12
    \/ year = 2009 /\ month \in 1..6
    \/ year = 2020 /\ month \in 2..4
    \/ year = 2001 /\ month \in 3..11
    \/ year = 1990 /\ month \in 7..12
    \/ year = 1991 /\ month \in 1..3
    \/ year = 1980 /\ month \in 1..7
    \/ year = 1981 /\ month \in 7..12
    \/ year = 1982 /\ month \in 1..11
    \/ year = 1973 /\ month \in 11..12
    \/ year = 1974 /\ month \in 1..12
    \/ year = 1975 /\ month \in 1..3
    \/ year = 1969 /\ month \in 12..12
    \/ year = 1970 /\ month \in 1..11

(* let mut fed_funds = match year { ... }.                                 *)
mock_fed_funds(year, month, cycle_phase) ==
    IF year < 1985 THEN 10 * SCALE + cycle_phase * 5
    ELSE IF year <= 1989 THEN 7 * SCALE + cycle_phase * 2
    ELSE IF year <= 1992 THEN 5 * SCALE - (1992 - year) * SCALE
    ELSE IF year <= 1999 THEN 5 * SCALE + cycle_phase
    ELSE IF year <= 2003 THEN 3 * SCALE - (year - 2000) * 5000
    ELSE IF year <= 2006 THEN 2 * SCALE + (year - 2004) * 15000
    ELSE IF year <= 2008 THEN 4 * SCALE - (year - 2007) * 2 * SCALE
    ELSE IF year <= 2015 THEN 2500
    ELSE IF year <= 2018 THEN 2500 + (year - 2016) * 7500
    ELSE IF year = 2019 THEN 2 * SCALE
    ELSE IF year = 2020 THEN 2500
    ELSE IF year = 2021 THEN 2500
    ELSE IF year = 2022 THEN 2 * SCALE + month * 3000
    ELSE IF year = 2023 THEN 5 * SCALE + Max(month - 6, 0) * 1000
    ELSE IF year <= 2025 THEN 52500
    ELSE 4 * SCALE + cycle_phase * 2

(* let cpi_inflation = match year { ... }.                                 *)
mock_cpi_inflation(year, month, cycle_phase) ==
    IF year < 1985 THEN 6 * SCALE + cycle_phase * 4
    ELSE IF year <= 2019 THEN 25000 + cycle_phase
    ELSE IF year = 2020 THEN 15000
    ELSE IF year = 2021 THEN 4 * SCALE + month * 3000
    ELSE IF year = 2022 THEN 8 * SCALE - Max(month - 6, 0) * 3000
    ELSE IF year = 2023 THEN 4 * SCALE - month * 1500
    ELSE IF year <= 2025 THEN 28000
    ELSE 25000 + cycle_phase

(* let mut yield_spread = match year { ... }.                              *)
mock_yield_spread(year, cycle_phase) ==
    IF year = 2000 THEN -5000
    ELSE IF year \in 2006..2007 THEN -3000
    ELSE IF year = 2019 THEN -2000
    ELSE IF year \in 2022..2023 THEN -SCALE
    ELSE SCALE + cycle_phase \div 2

(* The M2 factor of the years from 2020 on.                                *)
mock_m2_factor(year, month) ==
    IF year = 2020
    THEN IF month \in 1..2 THEN SCALE
         ELSE IF month = 3 THEN 10500
         ELSE IF month = 4 THEN 11200
         ELSE IF month = 5 THEN 11800
         ELSE IF month = 6 THEN 12200
         ELSE IF month \in 7..12 THEN 12500
         ELSE SCALE
    ELSE IF year = 2021 THEN 12500
    ELSE IF year >= 2022 THEN 12200
    ELSE SCALE

(* years_since_1980 * 2 * PI / 7, then sin: the business cycle.             *)
mock_cycle_phase(year, month) ==
    sin(TruncDiv((year - 1980) * 2 * PI + TruncDiv((month - 1) * 2 * PI, 12),
                 7))

(* years_since_1980 - 39.0, the exponent of the three trends.              *)
mock_trend_years(year, month) ==
    (year - 1980) * SCALE + TruncDiv((month - 1) * SCALE, 12) - 39 * SCALE

mock_gfc(year, month) == year = 2008 /\ month >= 9

mock_covid(year, month) == year = 2020 /\ month >= 3 /\ month <= 5

(* if cond { x *= factor }.                                                *)
mul_assign_if(cond, x, factor) == IF cond THEN FMul(x, factor) ELSE x

mock_investment(year, month, cycle_phase) ==
    mul_assign_if(mock_covid(year, month),
        mul_assign_if(mock_gfc(year, month),
            mul_assign_if(is_recession_period(year, month),
                FMul(FMul(3500 * SCALE,
                          powf_1_03(mock_trend_years(year, month))),
                     SCALE + FMul(cycle_phase, 1500)),
                8500),
            7500),
        7000)

mock_m2(year, month) ==
    FMul(FMul(15000 * SCALE, powf_1_06(mock_trend_years(year, month))),
         mock_m2_factor(year, month))

mock_gdp(year, month, cycle_phase) ==
    mul_assign_if(mock_covid(year, month),
        mul_assign_if(mock_gfc(year, month),
            mul_assign_if(is_recession_period(year, month),
                FMul(FMul(21500 * SCALE,
                          powf_1_025(mock_trend_years(year, month))),
                     SCALE + FMul(cycle_phase, 500)),
                9700),
            9500),
        9000)

(* capacity before the clamp: the later assignment wins.                   *)
mock_capacity(year, month, cycle_phase) ==
    IF mock_covid(year, month) THEN 64 * SCALE + (month - 3) * 3 * SCALE
    ELSE IF mock_gfc(year, month) THEN 70 * SCALE
    ELSE IF is_recession_period(year, month)
         THEN 77 * SCALE + cycle_phase * 5 - 10 * SCALE
         ELSE 77 * SCALE + cycle_phase * 5

(* fed_funds before the floor at zero: the later assignment wins.          *)
mock_fed_funds_adjusted(year, month, cycle_phase) ==
    IF mock_covid(year, month) THEN 2500
    ELSE IF mock_gfc(year, month) THEN SCALE - (month - 9) * 2000
    ELSE mock_fed_funds(year, month, cycle_phase)

mock_yield_spread_adjusted(year, month, cycle_phase) ==
    IF is_recession_period(year, month)
    THEN mock_yield_spread(year, cycle_phase) - 5000
    ELSE mock_yield_spread(year, cycle_phase)

(* The body of the month loop with the final clamp left out.               *)
mock_record_unclamped(year, month, date, cycle_phase) ==
    [date |-> date,
     investment |-> mock_investment(year, month, cycle_phase),
     m2_supply |-> mock_m2(year, month),
     fed_funds_rate |-> mock_fed_funds_adjusted(year, month, cycle_phase),
     gdp |-> mock_gdp(year, month, cycle_phase),
     capacity_util |-> mock_capacity(year, month, cycle_phase),
     yield_spread |-> mock_yield_spread_adjusted(year, month, cycle_phase),
     cpi_inflation |-> mock_cpi_inflation(year, month, cycle_phase)]

(* capacity = capacity.clamp(60.0, 90.0); fed_funds = fed_funds.max(0.0).  *)
mock_clamp(r) ==
    [r EXCEPT !.capacity_util = clamp(@, 60 * SCALE, 90 * SCALE),
              !.fed_funds_rate = Max(@, 0)]

(* The record the month loop pushes for (year, month).                     *)
mock_record(year, month, date) ==
    mock_clamp(mock_record_unclamped(year, month, date,
                                     mock_cycle_phase(year, month)))

(* for month in 1..=12: the records of one year, months without a date     *)
(* skipped.                                                                *)
RECURSIVE mock_year(_, _)
mock_year(year, month) ==
    IF month > 12 THEN <<>>
    ELSE LET date == from_ymd_opt(year, month)
         IN  (IF date.some THEN <<mock_record(year, month, date.date)>>
                           ELSE <<>>)
             \o mock_year(year, month + 1)

(* for year in start_year..end_year, the last year left out.               *)
RECURSIVE generate_mock_data_exclusive(_, _)
generate_mock_data_exclusive(start_year, end_year) ==
    IF start_year >= end_year THEN <<>>
    ELSE mock_year(start_year, 1)
         \o generate_mock_data_exclusive(start_year + 1, end_year)

(* for year in start_year..=end_year.                                      *)
RECURSIVE generate_mock_data(_, _)
generate_mock_data(start_year, end_year) ==
    IF start_year > end_year THEN <<>>
    ELSE mock_year(start_year, 1)
         \o generate_mock_data(start_year + 1, end_year)

(* The requests: every start year of the calendar the generator            *)
(* distinguishes, with an end year from the year before to MaxSpan later.  *)
MockFirstYear == 1960

MockLastYear == 2027

MaxSpan == 2

InitMock ==
    /\ engine = NIVEngine_new
    /\ data = <<>>
    /\ extended_data = <<>>
    /\ raw_results = <<>>
    /\ results = <<>>
    /\ validation = NoValidation
    /\ pc = "generating"
    /\ calls = <<>>
    /\ tasks = <<>>
    /\ monte_carlo = <<>>

GenerateMockData(start_year, end_year) ==
    /\ pc = "generating"
    /\ calls = <<>>
    /\ calls' = <<[fn |-> "generate_mock_data",
                   arg |-> <<start_year, end_year>>]>>
    /\ data' = generate_mock_data(start_year, end_year)
    /\ pc' = "generated"
    /\ UNCHANGED <<engine, extended_data, raw_results, results, validation,
                   tasks, monte_carlo>>

NextMock ==
    \E start_year \in MockFirstYear..MockLastYear :
        \E end_year \in (start_year - 2)..(start_year + MaxSpan) :
            GenerateMockData(start_year, end_year)

SpecMock == InitMock /\ [][NextMock]_vars

--------------------------------------------------------------------------
(* Properties.                                                             *)

Calculated == pc = "calculated"

ComponentFields ==
    {"thrust", "efficiency", "efficiency_squared", "slack", "drag",
     "drag_spread", "drag_real_rate", "drag_volatility"}

(* m is the arithmetic mean of xs, to the resolution of the fixed point.   *)
IsMean(m, xs) == Abs(Len(xs) * m - SumSeq(xs)) < Len(xs)

Rank(level) ==
    CASE level = "Normal" -> 0
      [] level = "Elevated" -> 1
      [] level = "Warning" -> 2
      [] level = "Critical" -> 3

(* C1: on n >= 13 records calculate_series returns n - 12 results in input *)
(* order, result k carrying the date of record k + 12, and no result the   *)
(* date of one of the first 12 records.                                    *)
C1_LengthAndDates ==
    (Calculated /\ Len(data) >= 13) =>
        /\ Len(results) = Len(data) - 12
        /\ \A k \in 1..Len(results) : results[k].date = data[k + 12].date
        /\ \A k \in 1..Len(results) : \A j \in 1..12 :
               results[k].date # data[j].date

C1_Witness ==
    /\ Calculated
    /\ Len(data) >= 25
    /\ Len(results) = Len(data) - 12
    /\ results[Len(results)].date = data[Len(data)].date

(* C2: on 12 or fewer records calculate_series returns the empty sequence  *)
(* and does not panic; on exactly 13 records it returns one result.        *)
C2_ShortInput ==
    /\ (pc # "loaded" /\ Len(data) <= 12) => (Calculated /\ results = <<>>)
    /\ (pc # "loaded" /\ Len(data) = 13) => (Calculated /\ Len(results) = 1)

C2_Witness == Calculated /\ Len(data) = 12 /\ results = <<>>

(* C3: every score compute_niv returns, and every niv_score of the series  *)
(* calculate_series returns, lies in [-100, 100].                          *)
C3_ScoreRange ==
    Calculated =>
        /\ \A k \in 1..Len(raw_results) :
               /\ raw_results[k].niv_score >= -100 * SCALE
               /\ raw_results[k].niv_score <= 100 * SCALE
        /\ \A k \in 1..Len(results) :
               /\ results[k].niv_score >= -100 * SCALE
               /\ results[k].niv_score <= 100 * SCALE

C3_Witness ==
    /\ Calculated
    /\ \E k \in 1..Len(raw_results) : raw_results[k].niv_score = -100 * SCALE
    /\ \E k \in 1..Len(raw_results) : raw_results[k].niv_score = 100 * SCALE
    /\ \E j \in 12..Len(results) :
           results[j].niv_score # raw_results[j].niv_score

(* C4: every recession_probability of the series calculate_series returns  *)
(* lies in [0, 1].                                                         *)
C4_ProbabilityRange ==
    Calculated =>
        \A k \in 1..Len(results) :
            /\ results[k].recession_probability >= 0
            /\ results[k].recession_probability <= SCALE

C4_Witness ==
    /\ Calculated
    /\ \E j \in 12..Len(results) :
           /\ results[j].recession_probability
                  # raw_results[j].recession_probability
           /\ results[j].recession_probability > 9000

(* C5: a computed score of 0 has the recession probability 0.5 exactly.    *)
C5_ZeroScoreIsHalf ==
    Calculated =>
        \A k \in 1..Len(raw_results) :
            raw_results[k].niv_score = 0 =>
                raw_results[k].recession_probability = 5000

C5_Witness ==
    /\ Calculated
    /\ \E k \in 1..Len(raw_results) :
           /\ raw_results[k].niv_score = 0
           /\ raw_results[k].recession_probability = 5000

C7_AlertMonotone ==
    \A i, j \in 1..Len(calls) :
        (/\ calls[i].arg >= 0
         /\ calls[j].arg <= SCALE
         /\ calls[i].arg <= calls[j].arg)
            => Rank(calls[i].ret) <= Rank(calls[j].ret)

C7_Witness ==
    /\ Len(calls) = 2
    /\ calls[1].arg >= 0
    /\ calls[1].arg < calls[2].arg
    /\ calls[2].arg <= SCALE
    /\ Rank(calls[1].ret) < Rank(calls[2].ret)

(* C8: with the default epsilon a record of slack 0 and drag 0 gives a     *)
(* non-zero denominator in compute_niv and a finite score.                 *)
C8_EpsilonFloor ==
    Calculated =>
        \A k \in 1..Len(raw_results) :
            (/\ raw_results[k].components.slack = 0
             /\ raw_results[k].components.drag = 0)
                => /\ niv_denominator(engine, raw_results[k].components) > 0
                   /\ Abs(raw_results[k].niv_score) <= 100 * SCALE

C8_Witness ==
    /\ Calculated
    /\ engine.epsilon = EPSILON
    /\ \E k \in 1..Len(raw_results) :
           /\ raw_results[k].components.slack = 0
           /\ raw_results[k].components.drag = 0
           /\ raw_results[k].components.thrust > 0
           /\ raw_results[k].niv_score = 100 * SCALE

(* C9: on n >= 12 raw results apply_smoothing returns n entries; entries   *)
(* 0..10 are the raw entries, and entry i >= 11 has the date of raw entry  *)
(* i and, in score, probability and each component field, the mean of the  *)
(* raw entries i-11..i.                                                    *)
C9_TrailingMean ==
    (Calculated /\ Len(raw_results) >= 12) =>
        /\ Len(results) = Len(raw_results)
        /\ \A i \in 1..11 : results[i] = raw_results[i]
        /\ \A i \in 12..Len(raw_results) :
               LET window == SubSeq(raw_results, i - 11, i)
               IN  /\ results[i].date = raw_results[i].date
                   /\ IsMean(results[i].niv_score,
                             [k \in 1..12 |-> window[k].niv_score])
                   /\ IsMean(results[i].recession_probability,
                             [k \in 1..12 |-> window[k].recession_probability])
                   /\ \A f \in ComponentFields :
                          IsMean(results[i].components[f],
                                 [k \in 1..12 |-> window[k].components[f]])

C9_Witness ==
    /\ Calculated
    /\ Len(raw_results) >= 13
    /\ results[12].components.thrust # raw_results[12].components.thrust
    /\ results[13].niv_score # results[12].niv_score

(* C10: on fewer than 12 raw results apply_smoothing returns its input.    *)
C10_ShortUnchanged ==
    (Calculated /\ Len(raw_results) < 12) => results = raw_results

C10_Witness ==
    /\ Calculated
    /\ Len(raw_results) = 11
    /\ results = raw_results

(* C11: in every result calculate_series returns, alert_level is           *)
(* from_probability of that result's own recession_probability; a smoothed *)
(* entry's tag comes from the smoothed probability, not from the raw tag.  *)
C11_AlertFromOwnProbability ==
    Calculated =>
        \A k \in 1..Len(results) :
            results[k].alert_level
                = from_probability(results[k].recession_probability)

C11_Witness ==
    /\ Calculated
    /\ \E k \in 12..Len(results) :
           /\ results[k].alert_level # raw_results[k].alert_level
           /\ results[k].alert_level \in {"Elevated", "Warning"}

Validated == pc = "validated"

CheckNamed(name) ==
    {k \in 1..Len(validation.checks) : validation.checks[k].name = name}

InCovidWindow(r) ==
    r.date \in {Ymd(2020, 3), Ymd(2020, 4), Ymd(2020, 5), Ymd(2020, 6)}

InGfcWindow(r) == r.date \in Ymd(2008, 1)..Ymd(2008, 12)

InStableWindow(r) == r.date \in Ymd(2017, 1)..Ymd(2018, 12)

(* C12: ValidationResult.passed is true exactly when every check present   *)
(* in checks passed.                                                       *)
C12_PassedIsConjunction ==
    Validated =>
        (validation.passed
            <=> \A k \in 1..Len(validation.checks) :
                    validation.checks[k].passed)

C12_Witness ==
    /\ Validated
    /\ Len(validation.checks) = 3
    /\ ~validation.checks[1].passed
    /\ validation.checks[3].passed
    /\ ~validation.passed

(* C13: a benchmark check is included exactly when the result sequence has *)
(* at least one month in its window; a check without data is omitted and   *)
(* does not fail the validation; with no result in any window the outcome  *)
(* is passed = true with zero checks; validation never errors.             *)
C13_ChecksOnlyWithData ==
    /\ pc # "panicked"
    /\ Validated =>
        /\ Cardinality(CheckNamed("2020 COVID Response"))
               = IF \E j \in 1..Len(results) : InCovidWindow(results[j])
                 THEN 1 ELSE 0
        /\ Cardinality(CheckNamed("2008 GFC Detection"))
               = IF \E j \in 1..Len(results) : InGfcWindow(results[j])
                 THEN 1 ELSE 0
        /\ Cardinality(CheckNamed("2017-2018 Stability"))
               = IF \E j \in 1..Len(results) : InStableWindow(results[j])
                 THEN 1 ELSE 0
        /\ Len(validation.checks)
               = Cardinality(CheckNamed("2020 COVID Response"))
                 + Cardinality(CheckNamed("2008 GFC Detection"))
                 + Cardinality(CheckNamed("2017-2018 Stability"))
        /\ (\A j \in 1..Len(results) :
                ~InCovidWindow(results[j]) /\ ~InGfcWindow(results[j])
                /\ ~InStableWindow(results[j]))
              => validation = [passed |-> TRUE, checks |-> <<>>]

C13_Witness ==
    /\ Validated
    /\ Len(results) = 3
    /\ \E j \in 1..Len(results) : results[j].date = Ymd(2007, 12)
    /\ \E j \in 1..Len(results) : results[j].date = Ymd(2019, 1)
    /\ Len(validation.checks) = 1
    /\ validation.checks[1].name = "2020 COVID Response"
    /\ validation.passed

C15_GfcCheck ==
    Validated =>
        \A k \in CheckNamed("2008 GFC Detection") :
            validation.checks[k].passed
                <=> \E j \in 1..Len(results) :
                        /\ InGfcWindow(results[j])
                        /\ 2 * results[j].recession_probability > SCALE

C15_Witness ==
    /\ Validated
    /\ \E k \in CheckNamed("2008 GFC Detection") :
           ~validation.checks[k].passed
    /\ \E j \in 1..Len(results) :
           /\ results[j].date = Ymd(2008, 12)
           /\ 2 * results[j].recession_probability = SCALE
    /\ \E j \in 1..Len(results) :
           /\ results[j].date = Ymd(2007, 12)
           /\ 2 * results[j].recession_probability > SCALE

(* C16: the "2017-2018 Stability" check uses the results of years 2017 and *)
(* 2018 and passes iff their mean recession_probability is strictly below  *)
(* 0.30.                                                                   *)
C16_StabilityCheck ==
    Validated =>
        \A k \in CheckNamed("2017-2018 Stability") :
            LET window == SelectSeq(results, InStableWindow)
                total  == SumSeq([j \in 1..Len(window) |->
                                      window[j].recession_probability])
            IN  validation.checks[k].passed
                    <=> 10 * total < 3 * SCALE * Len(window)

C16_Witness ==
    /\ Validated
    /\ \E k \in CheckNamed("2017-2018 Stability") :
           ~validation.checks[k].passed
    /\ \E j \in 1..Len(results) :
           /\ results[j].date = Ymd(2017, 1)
           /\ 10 * results[j].recession_probability = 3 * SCALE
    /\ \E j \in 1..Len(results) :
           /\ results[j].date = Ymd(2018, 12)
           /\ 10 * results[j].recession_probability = 3 * SCALE
    /\ \E j \in 1..Len(results) :
           /\ results[j].date = Ymd(2016, 12)
           /\ 10 * results[j].recession_probability < 3 * SCALE

C18_SampleComponents ==
    \A i \in 1..Len(calls) :
        calls[i].arg = sample_extended_data =>
            LET c == calls[i].ret
            IN  /\ Abs(1000 * c.efficiency - 164 * SCALE) < 10 * SCALE
                /\ Abs(1000 * c.efficiency_squared - 27 * SCALE) < 5 * SCALE
                /\ Abs(1000 * c.slack - 215 * SCALE) < SCALE
                /\ Abs(1000 * c.drag_spread - 5 * SCALE) < SCALE
                /\ Abs(10000 * c.drag_real_rate - 205 * SCALE) < 10 * SCALE
                /\ Abs(1000 * c.drag_volatility - 12 * SCALE) < SCALE
                /\ Abs(10000 * c.drag - 126 * SCALE) < 10 * SCALE

C18_Witness ==
    /\ Len(calls) = 1
    /\ calls[1].fn = "compute_components"
    /\ calls[1].arg = sample_extended_data
    /\ calls[1].ret.efficiency > 0
    /\ calls[1].ret.drag > 0

(* What a call returns when it runs alone.                                 *)
RunAlone(e, task) ==
    IF task.op = "calculate_series"
    THEN calculate_series(e, task.input)
    ELSE validate_against_benchmarks(task.input)

(* C19: calls of calculate_series and validate_against_benchmarks that     *)
(* interleave on one engine, without locking, each return exactly what the *)
(* call returns when run alone, and the engine's eta and epsilon stay as   *)
(* constructed.                                                            *)
C19_ConcurrentCalls ==
    /\ engine = NIVEngine_new
    /\ \A t \in DOMAIN tasks :
           tasks[t].pc = "returned"
               => tasks[t].out = RunAlone(NIVEngine_new, tasks[t])

C19_Witness ==
    /\ tasks # <<>>
    /\ tasks[1].op = "calculate_series"
    /\ tasks[2].op = "calculate_series"
    /\ tasks[1].input # tasks[2].input
    /\ tasks[1].pc = "third_pass"
    /\ tasks[2].pc = "returned"
    /\ tasks[2].out # <<>>
    /\ tasks[1].extended # <<>>

(* C20: for every eligible index i the month-over-month investment change  *)
(* is (investment[i] - investment[i-1]) / investment[i-1] x 100 when       *)
(* investment[i-1] > 0 and exactly 0 otherwise; the derivation never fails. *)
C20_InvestmentChange ==
    /\ pc # "panicked"
    /\ Calculated =>
        \A k \in 1..Len(extended_data) :
            LET cur  == data[k + 12].investment
                prev == data[k + 11].investment
                dg   == extended_data[k].dg
            IN  IF prev > 0
                THEN Abs(MulDiv(dg, prev, 100 * SCALE) - (cur - prev))
                         <= (prev \div SCALE) + 1
                ELSE dg = 0

C20_Witness ==
    /\ Calculated
    /\ \E k \in 1..Len(extended_data) :
           /\ data[k + 11].investment < 0
           /\ data[k + 12].investment > 0
           /\ extended_data[k].dg = 0
    /\ \E k \in 1..Len(extended_data) :
           /\ data[k + 11].investment > 0
           /\ extended_data[k].dg < 0

(* C21: for every eligible index i the year-over-year money-stock change   *)
(* is (money[i] - money[i-12]) / money[i-12] x 100 when money[i-12] > 0    *)
(* and exactly 0 otherwise; the policy-rate delta is rate[i] - rate[i-1].  *)
C21_MoneyChangeAndRateDelta ==
    Calculated =>
        \A k \in 1..Len(extended_data) :
            LET cur      == data[k + 12]
                year_ago == data[k].m2_supply
                da       == extended_data[k].da
            IN  /\ IF year_ago > 0
                   THEN Abs(MulDiv(da, year_ago, 100 * SCALE)
                            - (cur.m2_supply - year_ago))
                            <= (year_ago \div SCALE) + 1
                   ELSE da = 0
                /\ extended_data[k].dr
                       = cur.fed_funds_rate - data[k + 11].fed_funds_rate

C21_Witness ==
    /\ Calculated
    /\ \E k \in 1..Len(extended_data) :
           /\ data[k].m2_supply < 0
           /\ data[k + 12].m2_supply > 0
           /\ data[k + 11].m2_supply > 0
           /\ extended_data[k].da = 0
    /\ \E k \in 1..Len(extended_data) :
           /\ data[k].m2_supply > 0
           /\ extended_data[k].da < 0
           /\ extended_data[k].dr
                  = data[k + 12].fed_funds_rate - data[k + 11].fed_funds_rate

(* The squared deviations of the 12 policy rates at positions i-11..i from *)
(* their mean, summed, for the result at index k.                          *)
RateWindow(k) == [j \in 1..12 |-> data[k + j].fed_funds_rate]

SquaredDeviations(k) ==
    LET mean == TruncDiv(SumSeq(RateWindow(k)), 12)
    IN  SumSeq([j \in 1..12 |-> FMul(RateWindow(k)[j] - mean,
                                     RateWindow(k)[j] - mean)])

(* The rounding the square root and the division leave in n x sigma^2.     *)
DeviationSlack(sigma, n) == n * (((2 * sigma) \div SCALE) + 2) + n

(* C22: for every eligible index i the rolling volatility is the sample    *)
(* standard deviation (squared deviations from the window mean divided by  *)
(* 11, then square root) of exactly the 12 policy-rate values at positions *)
(* i-11 through i.                                                         *)
C22_SampleDeviation ==
    Calculated =>
        \A k \in 1..Len(extended_data) :
            LET sigma == extended_data[k].sigma_r
            IN  /\ sigma >= 0
                /\ Abs(11 * FMul(sigma, sigma) - SquaredDeviations(k))
                       <= DeviationSlack(sigma, 11)

C22_Witness ==
    /\ Calculated
    /\ \E k \in 1..Len(extended_data) :
           /\ extended_data[k].sigma_r > SCALE
           /\ \E j \in 1..12 : RateWindow(k)[j] # RateWindow(k)[1]

(* C22 as stated: the squared deviations are divided by 12.                *)
C22_PopulationDeviation ==
    Calculated =>
        \A k \in 1..Len(extended_data) :
            LET sigma == extended_data[k].sigma_r
            IN  Abs(12 * FMul(sigma, sigma) - SquaredDeviations(k))
                    <= DeviationSlack(sigma, 12)

(* C23: spread drag is |yield_spread|/100 when the spread is strictly      *)
(* negative and 0 otherwise; real-rate drag is max(0, rate - inflation) /  *)
(* 100; volatility drag is sigma_r/100; drag is 0.4, 0.4 and 0.2 times the *)
(* three; all four are non-negative when sigma_r is non-negative.          *)
C23_DragParts ==
    \A i \in 1..Len(calls) :
        calls[i].fn = "compute_components" =>
            LET x == calls[i].arg
                c == calls[i].ret
                real_rate == x.base.fed_funds_rate - x.base.cpi_inflation
            IN  /\ IF x.base.yield_spread < 0
                   THEN Abs(100 * c.drag_spread + x.base.yield_spread) < 100
                   ELSE c.drag_spread = 0
                /\ IF real_rate > 0
                   THEN Abs(100 * c.drag_real_rate - real_rate) < 100
                   ELSE c.drag_real_rate = 0
                /\ Abs(100 * c.drag_volatility - x.sigma_r) < 100
                /\ Abs(10 * c.drag - (4 * c.drag_spread + 4 * c.drag_real_rate
                                      + 2 * c.drag_volatility)) <= 30
                /\ x.sigma_r >= 0 =>
                       /\ c.drag_spread >= 0
                       /\ c.drag_real_rate >= 0
                       /\ c.drag_volatility >= 0
                       /\ c.drag >= 0

C23_Witness ==
    /\ Len(calls) = 1
    /\ calls[1].fn = "compute_components"
    /\ calls[1].arg.base.yield_spread > 0
    /\ calls[1].arg.sigma_r > 0
    /\ calls[1].ret.drag_spread = 0
    /\ calls[1].ret.drag_real_rate > 0
    /\ calls[1].ret.drag > calls[1].ret.drag_volatility \div 5

(* C24: efficiency is (investment x 1.15)/output when output > 0 and       *)
(* exactly 0 otherwise, efficiency_squared is its square, and a record     *)
(* with non-positive output gets a raw score of exactly 0 and a raw        *)
(* probability of 0.5.                                                     *)
C24_EfficiencyGuard ==
    Calculated =>
        \A k \in 1..Len(raw_results) :
            LET x == data[k + 12]
                c == raw_results[k].components
            IN  /\ c.efficiency_squared = FMul(c.efficiency, c.efficiency)
                /\ IF x.gdp > 0
                   THEN Abs(MulDiv(c.efficiency, x.gdp, SCALE)
                            - MulDiv(x.investment, 115, 100))
                            <= (x.gdp \div SCALE) + 1
                   ELSE /\ c.efficiency = 0
                        /\ c.efficiency_squared = 0
                        /\ raw_results[k].niv_score = 0
                        /\ 2 * raw_results[k].recession_probability = SCALE

C24_Witness ==
    /\ Calculated
    /\ \E k \in 1..Len(raw_results) :
           /\ data[k + 12].gdp < 0
           /\ raw_results[k].components.thrust # 0
           /\ raw_results[k].niv_score = 0
    /\ \E k \in 1..Len(raw_results) :
           /\ data[k + 12].gdp > 0
           /\ raw_results[k].components.efficiency > 0

(* The same records dated by their position, without any gap.              *)
Redated(d) == [i \in 1..Len(d) |-> [d[i] EXCEPT !.date = i]]

(* C25: the derived features of input record i depend on the records at    *)
(* positions i-1, i-12 and i-11..i and on no record's date: with a         *)
(* calendar gap in the input the engine neither fails nor skips a record   *)
(* and takes the record 12 positions earlier as the year-ago value.        *)
C25_PositionalLookback ==
    /\ pc # "panicked"
    /\ Calculated /\ Len(data) >= 13 =>
        /\ Len(extended_data) = Len(data) - 12
        /\ Len(results) = Len(data) - 12
        /\ \A k \in 1..Len(extended_data) :
               LET by_position == extend_record(Redated(data), k + 12)
               IN  /\ extended_data[k].base = data[k + 12]
                   /\ results[k].date = data[k + 12].date
                   /\ extended_data[k].dg = by_position.dg
                   /\ extended_data[k].da = by_position.da
                   /\ extended_data[k].dr = by_position.dr
                   /\ extended_data[k].sigma_r = by_position.sigma_r

C25_Witness ==
    /\ Calculated
    /\ Len(results) = Len(data) - 12
    /\ \E k \in 1..Len(extended_data) :
           /\ data[k + 12].date - data[k].date > 12
           /\ \E j \in 1..Len(data) :
                  /\ data[j].date = data[k + 12].date - 12
                  /\ data[j].m2_supply # data[k].m2_supply
           /\ extended_data[k].da # 0

V1ComponentFields == {"thrust", "efficiency", "slack", "drag"}

(* C26: apply_custom_smoothing(results, W), for W >= 1 and a sequence of   *)
(* length >= W, returns a same-length sequence whose entries at indices    *)
(* i < W-1 are unchanged and whose entries at i >= W-1 have score,         *)
(* probability and each component field replaced by the mean over the      *)
(* trailing W results ending at i.                                         *)
C26_CustomSmoothingMeans ==
    \A c \in 1..Len(calls) :
        (calls[c].fn = "apply_custom_smoothing"
         /\ calls[c].window >= 1 /\ Len(calls[c].arg) >= calls[c].window) =>
            LET rs  == calls[c].arg
                W   == calls[c].window
                out == calls[c].ret
            IN  /\ Len(out) = Len(rs)
                /\ \A i \in 1..Len(rs) :
                       IF i < W THEN out[i] = rs[i]
                       ELSE LET window_slice == SubSeq(rs, i + 1 - W, i)
                            IN  /\ IsMean(out[i].niv_score,
                                          [k \in 1..W |->
                                               window_slice[k].niv_score])
                                /\ IsMean(out[i].recession_probability,
                                          [k \in 1..W |->
                                     window_slice[k].recession_probability])
                                /\ \A f \in V1ComponentFields :
                                       IsMean(out[i].components[f],
                                              [k \in 1..W |->
                                          window_slice[k].components[f]])

(* C28: run_monte_carlo either returns INSUFFICIENT_DATA (when the stored  *)
(* result count is below window_size) or completes without a panic: every  *)
(* sampled window lies inside the data, no remainder or division by zero   *)
(* is taken, and every percentile index is within the draws.               *)
C28_MonteCarloNoPanic ==
    /\ pc # "panicked"
    /\ monte_carlo # <<>> =>
        /\ monte_carlo.response = "INSUFFICIENT_DATA"
               <=> (pc = "responded"
                    /\ Len(results) < monte_carlo.window_size)
        /\ \A k \in 1..Len(monte_carlo.draws) :
               monte_carlo.draws[k].start_idx + monte_carlo.window_size
                   <= Len(results)
        /\ monte_carlo.response = "ok" =>
               \A p \in Percentiles :
                   monte_carlo.percentiles[p] < Len(monte_carlo.draws)

(* C27: calculate_series applied to a non-empty input without its last     *)
(* record equals calculate_series of the whole input with its last result  *)
(* removed: a newer month never changes an earlier month's result.         *)
C27_NoLookAhead ==
    (Calculated /\ data # <<>>) =>
        calculate_series(engine, SubSeq(data, 1, Len(data) - 1))
            = SubSeq(results, 1, Len(results) - 1)

C27_Witness ==
    /\ Calculated
    /\ Len(results) > SMOOTH_WINDOW
    /\ raw_results[Len(results)].niv_score
           # raw_results[Len(results) - 1].niv_score
    /\ results[Len(results) - 1].niv_score
           # raw_results[Len(results) - 1].niv_score
    /\ results[Len(results)].niv_score # results[Len(results) - 1].niv_score

(* The recession table as (start, end) pairs of year and month, on the     *)
(* first of the month.                                                     *)
RecessionTable ==
    { <<1969, 12, 1970, 11>>, <<1973, 11, 1975, 3>>, <<1980, 1, 1980, 7>>,
      <<1981, 7, 1982, 11>>, <<1990, 7, 1991, 3>>, <<2001, 3, 2001, 11>>,
      <<2007, 12, 2009, 6>>, <<2020, 2, 2020, 4>> }

(* C29: is_recession(date) is true iff the date lies within at least one   *)
(* (start, end) pair of the fixed table, both endpoints inclusive; the     *)
(* table is never modified; both engines classify every date identically.  *)
C29_RecessionTable ==
    \A c \in 1..Len(calls) :
        calls[c].fn = "is_recession" =>
            /\ calls[c].ret
                   <=> \E r \in RecessionTable :
                           /\ NaiveDate(r[1], r[2], 1) <= calls[c].arg
                           /\ calls[c].arg <= NaiveDate(r[3], r[4], 1)
            /\ calls[c].ret_v1 = calls[c].ret
            /\ calls[c].table = known_recessions
            /\ {known_recessions[k] : k \in 1..Len(known_recessions)}
                   = {known_recessions_v1[k] :
                          k \in 1..Len(known_recessions_v1)}

C29_Witness ==
    /\ Len(calls) = 1
    /\ calls[1].fn = "is_recession"
    /\ calls[1].arg = NaiveDate(2020, 4, 1)
    /\ calls[1].ret
    /\ calls[1].ret_v1

(* C30: generate_mock_data(start_year, end_year) returns exactly           *)
(* 12 x (end_year - start_year + 1) records when start_year <= end_year    *)
(* and none otherwise; record i is dated on the first of the (i - 1)-th    *)
(* month after January of start_year, so the dates ascend strictly with no *)
(* month twice; every record has capacity utilization within [60, 90] and  *)
(* a non-negative policy rate.                                             *)
C30_MockData ==
    \A k \in 1..Len(calls) :
        calls[k].fn = "generate_mock_data" =>
            LET start_year == calls[k].arg[1]
                end_year   == calls[k].arg[2]
            IN  /\ Len(data) = IF start_year <= end_year
                               THEN 12 * (end_year - start_year + 1)
                               ELSE 0
                /\ \A i \in 1..Len(data) :
                       /\ data[i].date = Ymd(start_year, 1) + (i - 1)
                       /\ data[i].capacity_util >= 60 * SCALE
                       /\ data[i].capacity_util <= 90 * SCALE
                       /\ data[i].fed_funds_rate >= 0
                /\ \A i \in 1..Len(data) : \A j \in 1..Len(data) :
                       i < j => data[i].date < data[j].date

(* A request over 2019..2021 has returned its 36 records, the one of       *)
(* April 2020 with the utilization the COVID adjustment assigns.           *)
C30_Witness ==
    /\ Len(calls) = 1
    /\ calls[1].fn = "generate_mock_data"
    /\ calls[1].arg = <<2019, 2021>>
    /\ Len(data) = 36
    /\ data[16].date = Ymd(2020, 4)
    /\ data[16].capacity_util = 67 * SCALE
    /\ data[16].fed_funds_rate = 2500

====
